---- MODULE Spec2Model ----
(***************************************************************************)
(* A model of the timeintervals library: TimeInterval (a closed interval   *)
(* of instants) and TimeSet (an ordered list of TimeIntervals with set     *)
(* algebra).  Instants are integers: the code only compares datetimes and  *)
(* copies them, so a totally ordered integer line is an exact stand-in.    *)
(*                                                                         *)
(* A TimeInterval is the record [start |-> s, end |-> e].  The value an    *)
(* operation returns is the record [err, time_intervals]: err is "none"    *)
(* and time_intervals the list of the returned TimeSet, or err names the   *)
(* exception the call raised and time_intervals is <<>>.  A validator that  *)
(* raises during construction surfaces as pydantic's ValidationError,      *)
(* which wraps the InvalidTimeIntervalError raised inside the validator.   *)
(***************************************************************************)
EXTENDS Integers, Sequences, FiniteSets

VARIABLES op, minuend, subtrahend, time_intervals, other, result,
          arg_start, arg_end, arg_new_start, arg_new_end

\* the arguments of the calls: no operation assigns to any of them
inputs == <<minuend, subtrahend, time_intervals, other,
            arg_start, arg_end, arg_new_start, arg_new_end>>

vars == <<op, result, inputs>>

(***************************************************************************)
(* Bounds of the explored inputs.                                          *)
(***************************************************************************)
\* instants 0..MaxInstant for the operations on two TimeIntervals
MaxInstant == 3
\* instants 0..MaxSetInstant for the members of TimeSets
MaxSetInstant == 3
\* longest TimeSet given to an operation on one TimeSet
MaxLen == 3
\* longest TimeSet given to an operation that takes further arguments
MaxOperandLen == 2
\* most TimeIntervals in the two operands of a TimeSet-TimeSet operation together
MaxPairTotal == 3
\* instants 0..MaxRawInstant for the two arguments of TimeInterval(start, end)
MaxRawInstant == 7
\* instants 0..MaxNarrowInstant for the members of the longer pairs of TimeSets
MaxNarrowInstant == 1
\* most TimeIntervals in the two operands of such a longer pair together
MaxNarrowTotal == 4
\* longest TimeSet given together with a TimeInterval or with clamp bounds
\* where every operation is called on the same operands
MaxProbeLen == 1

\* a slip that also rejects end = start
CheckEndStrictlyAfterStart(start, end) == end > start

\* check_end_gt_start: the validator accepts exactly end >= start
check_end_gt_start(start, end) == ~(end < start)

\* the TimeIntervals that can exist: the constructor rejects end < start
Intervals(maxInstant) ==
    { ti \in [start : 0..maxInstant, end : 0..maxInstant] :
        check_end_gt_start(ti.start, ti.end) }

RECURSIVE SeqsUpTo(_, _)
SeqsUpTo(S, n) ==
    IF n = 0 THEN { <<>> }
    ELSE LET shorter == SeqsUpTo(S, n - 1)
         IN  shorter \cup { Append(q, x) : q \in shorter, x \in S }

(***************************************************************************)
(* TimeInterval                                                            *)
(***************************************************************************)
\* a slip with a strict comparison of the starts
NestedWithStrictStart(self, o) == (self.start > o.start) /\ (self.end <= o.end)

is_nested_in(self, o) == (self.start >= o.start) /\ (self.end <= o.end)

\* a slip with strict comparisons, so that touching intervals are not disjoint
DisjointWithStrict(self, o) == (self.end < o.start) \/ (o.end < self.start)

is_disjoint_with(self, o) == (self.end <= o.start) \/ (o.end <= self.start)

(***************************************************************************)
(* TimeSet: construction and results                                       *)
(***************************************************************************)
TimeSet(intervals) == [err |-> "none", time_intervals |-> intervals]

Raise(e) == [err |-> e, time_intervals |-> <<>>]

\* TimeSet([TimeInterval(b[1], b[2]) for b in bounds]): the first invalid
\* TimeInterval raises (pydantic's ValidationError around the validator's
\* InvalidTimeIntervalError) before the TimeSet exists.
TimeSetOf(bounds) ==
    IF \E i \in 1..Len(bounds) : ~check_end_gt_start(bounds[i][1], bounds[i][2])
    THEN Raise("ValidationError")
    ELSE TimeSet([i \in 1..Len(bounds) |->
                    [start |-> bounds[i][1], end |-> bounds[i][2]]])

is_empty(ts) == Len(ts.time_intervals) = 0

(***************************************************************************)
(* TimeInterval - TimeInterval                                             *)
(***************************************************************************)
\* a slip that keeps only the left remainder of a split minuend
NestedLosesRightPiece(m, s) ==
    IF m.start = s.start THEN TimeSetOf(<< <<s.end, m.end>> >>)
    ELSE TimeSetOf(<< <<m.start, s.start>> >>)

_subtract_nested_timeintervals(m, s) ==
    IF m.start = s.start THEN TimeSetOf(<< <<s.end, m.end>> >>)
    ELSE IF m.end = s.end THEN TimeSetOf(<< <<m.start, s.start>> >>)
    ELSE TimeSetOf(<< <<m.start, s.start>>, <<s.end, m.end>> >>)

\* a slip that exchanges the two truncations
NonNestedSwapped(m, s) ==
    IF m.start < s.start THEN TimeSetOf(<< <<s.end, m.end>> >>)
    ELSE IF m.start > s.start THEN TimeSetOf(<< <<m.start, s.start>> >>)
    ELSE Raise("ValueError")

_subtract_non_nested_timeintervals(m, s) ==
    IF m.start < s.start THEN TimeSetOf(<< <<m.start, s.start>> >>)
    ELSE IF m.start > s.start THEN TimeSetOf(<< <<s.end, m.end>> >>)
    ELSE Raise("ValueError")

\* a slip that tests nesting before disjointness
DispatchNestedFirst(m, s) ==
    IF is_nested_in(m, s) THEN TimeSet(<<>>)
    ELSE IF is_disjoint_with(m, s) THEN TimeSet(<<m>>)
    ELSE IF is_nested_in(s, m) THEN _subtract_nested_timeintervals(m, s)
    ELSE _subtract_non_nested_timeintervals(m, s)

\* a slip that leaves out the test for a minuend nested in the subtrahend
DispatchWithoutMinuendNested(m, s) ==
    IF is_disjoint_with(m, s) THEN TimeSet(<<m>>)
    ELSE IF is_nested_in(s, m) THEN _subtract_nested_timeintervals(m, s)
    ELSE _subtract_non_nested_timeintervals(m, s)

_subtract_timeinterval_from_timeinterval(m, s) ==
    IF is_disjoint_with(m, s) THEN TimeSet(<<m>>)
    ELSE IF is_nested_in(m, s) THEN TimeSet(<<>>)
    ELSE IF is_nested_in(s, m) THEN _subtract_nested_timeintervals(m, s)
    ELSE _subtract_non_nested_timeintervals(m, s)

(***************************************************************************)
(* TimeSet - TimeInterval                                                  *)
(***************************************************************************)
\* sorted(xs, key=lambda ti: ti.start): Python's sort is stable, so each
\* element goes after every already placed element whose start is <= its own.
\* InsertByStart puts ti into the sorted list xs behind its ties.
RECURSIVE InsertByStart(_, _)
InsertByStart(xs, ti) ==
    IF xs = <<>> THEN <<ti>>
    ELSE IF Head(xs).start <= ti.start
         THEN <<Head(xs)>> \o InsertByStart(Tail(xs), ti)
         ELSE <<ti>> \o xs

RECURSIVE sorted_by_start(_)
sorted_by_start(xs) ==
    IF xs = <<>> THEN <<>>
    ELSE InsertByStart(sorted_by_start(SubSeq(xs, 1, Len(xs) - 1)), xs[Len(xs)])

\* reduce(add, differences, TimeSet([])): __add__ of two TimeSets concatenates
RECURSIVE reduce_add(_, _)
reduce_add(differences, acc) ==
    IF differences = <<>> THEN acc
    ELSE reduce_add(Tail(differences),
                    TimeSet(acc.time_intervals \o Head(differences).time_intervals))

\* a slip that sorts the minuend's members before subtracting
SubtractFromSortedTimeset(ts, s) ==
    LET srt == sorted_by_start(ts)
        differences == [i \in 1..Len(srt) |->
                          _subtract_timeinterval_from_timeinterval(srt[i], s)]
    IN  reduce_add(SelectSeq(differences, LAMBDA d : ~is_empty(d)), TimeSet(<<>>))

\* ts is the minuend's list.  The list comprehension stops at the first
\* primitive call that raises; otherwise the empty results are filtered out
\* and the rest is folded with add.
_subtract_timeinterval_from_timeset(ts, s) ==
    LET differences == [i \in 1..Len(ts) |->
                          _subtract_timeinterval_from_timeinterval(ts[i], s)]
        raised == { i \in 1..Len(ts) : differences[i].err # "none" }
    IN  IF raised # {}
        THEN differences[CHOOSE i \in raised : \A j \in raised : i <= j]
        ELSE reduce_add(SelectSeq(differences, LAMBDA d : ~is_empty(d)),
                        TimeSet(<<>>))

(***************************************************************************)
(* TimeSet - TimeSet                                                       *)
(***************************************************************************)
\* a slip that takes the earliest start in place of the latest end
EarliestStart(intervals) ==
    CHOOSE e \in { intervals[i].start : i \in 1..Len(intervals) } :
        \A i \in 1..Len(intervals) : e <= intervals[i].start

\* max([ti.end for ti in diff.time_intervals]) of a non-empty list
latest_end(intervals) ==
    CHOOSE e \in { intervals[i].end : i \in 1..Len(intervals) } :
        \A i \in 1..Len(intervals) : intervals[i].end <= e

\* the inner loop over the remaining sorted subtrahends, from the current diff
RECURSIVE subtract_inner_loop(_, _)
subtract_inner_loop(diff, subtrahends) ==
    IF subtrahends = <<>> THEN diff
    ELSE LET s == Head(subtrahends)
             new_diff == _subtract_timeinterval_from_timeset(diff.time_intervals, s)
         IN  IF new_diff.err # "none" THEN new_diff
             ELSE IF is_empty(new_diff) THEN new_diff
             ELSE IF s.start > latest_end(new_diff.time_intervals) THEN new_diff
             ELSE subtract_inner_loop(new_diff, Tail(subtrahends))

\* a slip that leaves the outer loop at the first minuend with nothing left
RECURSIVE OuterLoopStopsAtEmptyDiff(_, _, _)
OuterLoopStopsAtEmptyDiff(minuends, subtrahends, differences) ==
    IF minuends = <<>> THEN TimeSet(differences)
    ELSE LET diff == subtract_inner_loop(TimeSet(<<Head(minuends)>>), subtrahends)
         IN  IF diff.err # "none" THEN diff
             ELSE IF is_empty(diff) THEN TimeSet(differences)
             ELSE OuterLoopStopsAtEmptyDiff(Tail(minuends), subtrahends,
                                            differences \o diff.time_intervals)

\* the outer loop over the remaining sorted minuends; differences is the list
\* collected so far
RECURSIVE subtract_outer_loop(_, _, _)
subtract_outer_loop(minuends, subtrahends, differences) ==
    IF minuends = <<>> THEN TimeSet(differences)
    ELSE LET diff == subtract_inner_loop(TimeSet(<<Head(minuends)>>), subtrahends)
         IN  IF diff.err # "none" THEN diff
             ELSE subtract_outer_loop(Tail(minuends), subtrahends,
                                      differences \o diff.time_intervals)

\* a slip that walks the minuend in its given order
SubtractTimesetUnsortedMinuend(min_ts, sub_ts) ==
    subtract_outer_loop(min_ts, sorted_by_start(sub_ts), <<>>)

_subtract_timeset_from_timeset(min_ts, sub_ts) ==
    subtract_outer_loop(sorted_by_start(min_ts), sorted_by_start(sub_ts), <<>>)

(***************************************************************************)
(* compute_internal_union                                                  *)
(***************************************************************************)
\* the sweep over the remaining sorted intervals
RECURSIVE union_sweep(_, _, _, _)
union_sweep(intervals, current_start, current_end, unioned) ==
    IF intervals = <<>>
    THEN TimeSetOf(unioned \o << <<current_start, current_end>> >>)
    ELSE LET interval == Head(intervals)
             rest == Tail(intervals)
             current == [start |-> current_start, end |-> current_end]
         IN  IF ~check_end_gt_start(current_start, current_end)
             THEN Raise("ValidationError")
             ELSE IF ~is_disjoint_with(current, interval)
             THEN IF interval.end > current_end
                  THEN union_sweep(rest, current_start, interval.end, unioned)
                  ELSE union_sweep(rest, current_start, current_end, unioned)
             ELSE IF interval.start = current_end
             THEN union_sweep(rest, current_start, interval.end, unioned)
             ELSE union_sweep(rest, interval.start, interval.end,
                              unioned \o << <<current_start, current_end>> >>)

\* a slip that leaves out the branch fusing touching intervals
RECURSIVE SweepWithoutTouching(_, _, _, _)
SweepWithoutTouching(intervals, current_start, current_end, unioned) ==
    IF intervals = <<>>
    THEN TimeSetOf(unioned \o << <<current_start, current_end>> >>)
    ELSE LET interval == Head(intervals)
             rest == Tail(intervals)
             current == [start |-> current_start, end |-> current_end]
         IN  IF ~is_disjoint_with(current, interval)
             THEN IF interval.end > current_end
                  THEN SweepWithoutTouching(rest, current_start, interval.end, unioned)
                  ELSE SweepWithoutTouching(rest, current_start, current_end, unioned)
             ELSE SweepWithoutTouching(rest, interval.start, interval.end,
                              unioned \o << <<current_start, current_end>> >>)

UnionWithoutTouchingBranch(ts) ==
    IF ts = <<>> THEN TimeSet(<<>>)
    ELSE LET intervals == sorted_by_start(ts)
         IN  SweepWithoutTouching(intervals, intervals[1].start,
                                  intervals[1].end, <<>>)

compute_internal_union(ts) ==
    IF ts = <<>> THEN TimeSet(<<>>)
    ELSE LET intervals == sorted_by_start(ts)
         IN  union_sweep(intervals, intervals[1].start, intervals[1].end, <<>>)

(***************************************************************************)
(* compute_union and __eq__                                                *)
(***************************************************************************)
\* a slip that forgets the other TimeSet
UnionOfReceiverOnly(ts, other_ts) == compute_internal_union(ts)

\* ts is self.time_intervals, other_ts is other.time_intervals
compute_union(ts, other_ts) == compute_internal_union(ts \o other_ts)

\* a slip that compares the members and forgets their positions
EqualAsSets(ts, other_ts) ==
    { ts[i] : i \in 1..Len(ts) } = { other_ts[i] : i \in 1..Len(other_ts) }

\* self.time_intervals == other.time_intervals: Python compares two lists by
\* length and then member by member
__eq__(ts, other_ts) ==
    /\ Len(ts) = Len(other_ts)
    /\ \A i \in 1..Len(ts) : ts[i] = other_ts[i]

(***************************************************************************)
(* Optional values and plain return values                                 *)
(***************************************************************************)
\* Python's None, and a value that is not None, where the code says Optional
None == [is_none |-> TRUE]

Some(v) == [is_none |-> FALSE, value |-> v]

\* what a call that returns v (not a TimeSet) gives back
Returned(v) == [err |-> "none", value |-> v]

\* the calls of a specification that take no start, end or clamp bounds
NoScalarArguments ==
    /\ arg_start = 0
    /\ arg_end = 0
    /\ arg_new_start = None
    /\ arg_new_end = None

(***************************************************************************)
(* TimeInterval: construction and measures                                 *)
(***************************************************************************)
\* TimeInterval(start, end): the validator runs on construction; what it
\* raises reaches the caller wrapped in pydantic's ValidationError
TimeInterval(start, end) ==
    IF check_end_gt_start(start, end)
    THEN Returned([start |-> start, end |-> end])
    ELSE Raise("ValidationError")

time_elapsed(self) == self.end - self.start

\* TimeInterval.is_empty
interval_is_empty(self) == self.start = self.end

(***************************************************************************)
(* Intersections                                                           *)
(***************************************************************************)
later_of(x, y) == IF x >= y THEN x ELSE y

earlier_of(x, y) == IF x <= y THEN x ELSE y

\* a slip that keeps the first operand's start where the two only overlap
IntersectionKeepsFirstStart(time_interval_1, time_interval_2) ==
    IF time_interval_1.is_none THEN Returned(None)
    ELSE LET t1 == time_interval_1.value
         IN  IF is_disjoint_with(t1, time_interval_2) THEN Returned(None)
             ELSE IF is_nested_in(t1, time_interval_2) THEN Returned(Some(t1))
             ELSE IF is_nested_in(time_interval_2, t1)
             THEN Returned(Some(time_interval_2))
             ELSE Returned(Some([start |-> t1.start,
                                 end |-> earlier_of(t1.end, time_interval_2.end)]))

\* time_interval_1 is Optional: None or Some(interval)
_timeinterval_intersection(time_interval_1, time_interval_2) ==
    IF time_interval_1.is_none THEN Returned(None)
    ELSE LET t1 == time_interval_1.value
         IN  IF is_disjoint_with(t1, time_interval_2) THEN Returned(None)
             ELSE IF is_nested_in(t1, time_interval_2) THEN Returned(Some(t1))
             ELSE IF is_nested_in(time_interval_2, t1)
             THEN Returned(Some(time_interval_2))
             ELSE LET latest_start == later_of(t1.start, time_interval_2.start)
                      earliest_end == earlier_of(t1.end, time_interval_2.end)
                      made == TimeInterval(latest_start, earliest_end)
                  IN  IF made.err # "none" THEN made
                      ELSE Returned(Some(made.value))

\* reduce(TimeSet._timeinterval_intersection, rest, acc)
RECURSIVE reduce_intersection(_, _)
reduce_intersection(rest, acc) ==
    IF rest = <<>> THEN Returned(acc)
    ELSE LET step == _timeinterval_intersection(acc, Head(rest))
         IN  IF step.err # "none" THEN step
             ELSE reduce_intersection(Tail(rest), step.value)

\* a slip that restarts the fold from the next member after a None
RECURSIVE ReduceRestartingAfterNone(_, _)
ReduceRestartingAfterNone(rest, acc) ==
    IF rest = <<>> THEN Returned(acc)
    ELSE IF acc.is_none
    THEN ReduceRestartingAfterNone(Tail(rest), Some(Head(rest)))
    ELSE ReduceRestartingAfterNone(
            Tail(rest), _timeinterval_intersection(acc, Head(rest)).value)

InternalIntersectionRestarting(ts) ==
    IF ts = <<>> THEN TimeSet(<<>>)
    ELSE LET intersection == ReduceRestartingAfterNone(Tail(ts), Some(Head(ts)))
         IN  IF ~intersection.value.is_none
             THEN TimeSet(<<intersection.value.value>>)
             ELSE TimeSet(<<>>)

\* a slip that folds the first two members only
InternalIntersectionOfFirstTwo(ts) ==
    IF ts = <<>> THEN TimeSet(<<>>)
    ELSE LET intersection == reduce_intersection(IF Len(ts) >= 2 THEN <<ts[2]>> ELSE <<>>,
                                               Some(Head(ts)))
         IN  IF ~intersection.value.is_none
             THEN TimeSet(<<intersection.value.value>>)
             ELSE TimeSet(<<>>)

compute_internal_intersection(ts) ==
    IF ts = <<>> THEN TimeSet(<<>>)
    ELSE LET intersection == reduce_intersection(Tail(ts), Some(Head(ts)))
         IN  IF intersection.err # "none" THEN intersection
             ELSE IF ~intersection.value.is_none
             THEN TimeSet(<<intersection.value.value>>)
             ELSE TimeSet(<<>>)

\* the two nested loops over the runs of both unions: this_runs outside,
\* other_runs inside, every intersection that is not None appended
intersection_loops(this_runs, other_runs) ==
    LET n == Len(this_runs)
        m == Len(other_runs)
        steps == [k \in 1..(n * m) |->
                    _timeinterval_intersection(
                        Some(this_runs[((k - 1) \div m) + 1]),
                        other_runs[((k - 1) % m) + 1])]
        raised == { k \in 1..(n * m) : steps[k].err # "none" }
        found == SelectSeq(steps, LAMBDA r : ~r.value.is_none)
    IN  IF raised # {}
        THEN steps[CHOOSE k \in raised : \A j \in raised : k <= j]
        ELSE TimeSet([k \in 1..Len(found) |-> found[k].value.value])

\* a slip that normalizes only the receiver
IntersectionWithRawOther(ts, other_ts) ==
    intersection_loops(compute_internal_union(ts).time_intervals, other_ts)

\* ts is self.time_intervals, other_ts is other.time_intervals
compute_intersection(ts, other_ts) ==
    LET this_timeset_union == compute_internal_union(ts)
        other_timeset_union == compute_internal_union(other_ts)
    IN  IF this_timeset_union.err # "none" THEN this_timeset_union
        ELSE IF other_timeset_union.err # "none" THEN other_timeset_union
        ELSE intersection_loops(this_timeset_union.time_intervals,
                                other_timeset_union.time_intervals)

(***************************************************************************)
(* clamp                                                                   *)
(***************************************************************************)
\* new_start and new_end are Optional instants
clamp_start(time_interval, new_start) ==
    IF ~new_start.is_none /\ time_interval.start < new_start.value
    THEN new_start.value ELSE time_interval.start

clamp_end(time_interval, new_end) ==
    IF ~new_end.is_none /\ time_interval.end > new_end.value
    THEN new_end.value ELSE time_interval.end

\* a slip that builds the clipped interval without testing end >= start
RECURSIVE ClampWithoutInversionTest(_, _, _, _)
ClampWithoutInversionTest(rest, new_start, new_end, clamped_intervals) ==
    IF rest = <<>> THEN TimeSet(clamped_intervals)
    ELSE LET new_interval == TimeInterval(clamp_start(Head(rest), new_start),
                                          clamp_end(Head(rest), new_end))
         IN  IF new_interval.err # "none" THEN new_interval
             ELSE ClampWithoutInversionTest(
                      Tail(rest), new_start, new_end,
                      Append(clamped_intervals, new_interval.value))

\* the loop over the remaining members; clamped_intervals is the list so far
RECURSIVE clamp_loop(_, _, _, _)
clamp_loop(rest, new_start, new_end, clamped_intervals) ==
    IF rest = <<>> THEN TimeSet(clamped_intervals)
    ELSE LET start == clamp_start(Head(rest), new_start)
             end == clamp_end(Head(rest), new_end)
         IN  IF end >= start
             THEN LET new_interval == TimeInterval(start, end)
                  IN  IF new_interval.err # "none" THEN new_interval
                      ELSE clamp_loop(Tail(rest), new_start, new_end,
                                      Append(clamped_intervals, new_interval.value))
             ELSE clamp_loop(Tail(rest), new_start, new_end, clamped_intervals)

\* a slip that also drops the members clipped to a single instant
RECURSIVE ClampDropsSingleInstants(_, _, _)
ClampDropsSingleInstants(ts, new_start, new_end) ==
    IF ts = <<>> THEN TimeSet(<<>>)
    ELSE LET start == clamp_start(Head(ts), new_start)
             end == clamp_end(Head(ts), new_end)
             rest == ClampDropsSingleInstants(Tail(ts), new_start, new_end)
         IN  IF end > start
             THEN TimeSet(<<[start |-> start, end |-> end]>> \o rest.time_intervals)
             ELSE rest

clamp(ts, new_start, new_end) == clamp_loop(ts, new_start, new_end, <<>>)

(***************************************************************************)
(* The operators + and -                                                   *)
(***************************************************************************)
\* the right operand of + and -: a TimeSet, a TimeInterval or anything else
TimeSetOperand(intervals) == [kind |-> "TimeSet", time_intervals |-> intervals]

TimeIntervalOperand(ti) == [kind |-> "TimeInterval", value |-> ti]

OtherOperand == [kind |-> "other"]

\* a slip that merges the sum
AddThenUnion(ts, operand) ==
    IF operand.kind = "TimeSet"
    THEN compute_internal_union(ts \o operand.time_intervals)
    ELSE IF operand.kind = "TimeInterval"
    THEN compute_internal_union(ts \o <<operand.value>>)
    ELSE Raise("TypeError")

__add__(ts, operand) ==
    IF operand.kind = "TimeSet" THEN TimeSet(ts \o operand.time_intervals)
    ELSE IF operand.kind = "TimeInterval" THEN TimeSet(ts \o <<operand.value>>)
    ELSE Raise("TypeError")

__sub__(ts, operand) ==
    IF operand.kind = "TimeSet"
    THEN _subtract_timeset_from_timeset(ts, operand.time_intervals)
    ELSE IF operand.kind = "TimeInterval"
    THEN _subtract_timeinterval_from_timeset(ts, operand.value)
    ELSE Raise("ValueError")

(***************************************************************************)
(* Operations on two TimeIntervals                                         *)
(***************************************************************************)
InitInterval ==
    /\ op = "init"
    /\ minuend \in Intervals(MaxInstant)
    /\ subtrahend \in Intervals(MaxInstant)
    /\ time_intervals = <<>>
    /\ other = <<>>
    /\ result = TimeSet(<<>>)
    /\ NoScalarArguments

SubtractTimeintervalFromTimeinterval ==
    /\ op' = "_subtract_timeinterval_from_timeinterval"
    /\ result' = _subtract_timeinterval_from_timeinterval(minuend, subtrahend)
    /\ UNCHANGED inputs

SubtractNestedTimeintervals ==
    /\ op' = "_subtract_nested_timeintervals"
    /\ result' = _subtract_nested_timeintervals(minuend, subtrahend)
    /\ UNCHANGED inputs

SubtractNonNestedTimeintervals ==
    /\ op' = "_subtract_non_nested_timeintervals"
    /\ result' = _subtract_non_nested_timeintervals(minuend, subtrahend)
    /\ UNCHANGED inputs

\* _timeinterval_intersection(minuend, subtrahend): the two intervals are
\* time_interval_1 and time_interval_2
TimeintervalIntersection ==
    /\ op' = "_timeinterval_intersection"
    /\ result' = _timeinterval_intersection(Some(minuend), subtrahend)
    /\ UNCHANGED inputs

\* _timeinterval_intersection(None, subtrahend)
TimeintervalIntersectionOfNone ==
    /\ op' = "_timeinterval_intersection(None)"
    /\ result' = _timeinterval_intersection(None, subtrahend)
    /\ UNCHANGED inputs

\* minuend.is_disjoint_with(subtrahend)
IsDisjointWith ==
    /\ op' = "is_disjoint_with"
    /\ result' = Returned(is_disjoint_with(minuend, subtrahend))
    /\ UNCHANGED inputs

\* minuend.is_nested_in(subtrahend)
IsNestedIn ==
    /\ op' = "is_nested_in"
    /\ result' = Returned(is_nested_in(minuend, subtrahend))
    /\ UNCHANGED inputs

NextInterval ==
    \/ SubtractTimeintervalFromTimeinterval
    \/ SubtractNestedTimeintervals
    \/ SubtractNonNestedTimeintervals
    \/ TimeintervalIntersection
    \/ TimeintervalIntersectionOfNone
    \/ IsDisjointWith
    \/ IsNestedIn

SpecInterval == InitInterval /\ [][NextInterval]_vars

(***************************************************************************)
(* Operations on a TimeSet and a TimeInterval                              *)
(***************************************************************************)
TimeSets(maxLen) == SeqsUpTo(Intervals(MaxSetInstant), maxLen)

InitSetInterval ==
    /\ op = "init"
    /\ time_intervals \in TimeSets(MaxOperandLen)
    /\ subtrahend \in Intervals(MaxSetInstant)
    /\ minuend = [start |-> 0, end |-> 0]
    /\ other = <<>>
    /\ result = TimeSet(<<>>)
    /\ NoScalarArguments

\* TimeSet.__sub__ with a TimeInterval on the right
SubtractTimeintervalFromTimeset ==
    /\ op' = "_subtract_timeinterval_from_timeset"
    /\ result' = _subtract_timeinterval_from_timeset(time_intervals, subtrahend)
    /\ UNCHANGED inputs

\* TimeSet.__add__ with a TimeInterval on the right (the interval is subtrahend)
AddTimeinterval ==
    /\ op' = "__add__(TimeInterval)"
    /\ result' = __add__(time_intervals, TimeIntervalOperand(subtrahend))
    /\ UNCHANGED inputs

NextSetInterval == SubtractTimeintervalFromTimeset

SpecSetInterval == InitSetInterval /\ [][NextSetInterval]_vars

(***************************************************************************)
(* Operations on two TimeSets                                              *)
(***************************************************************************)
InitPair ==
    /\ op = "init"
    /\ time_intervals \in TimeSets(MaxPairTotal)
    /\ other \in TimeSets(MaxPairTotal - Len(time_intervals))
    /\ minuend = [start |-> 0, end |-> 0]
    /\ subtrahend = [start |-> 0, end |-> 0]
    /\ result = TimeSet(<<>>)
    /\ NoScalarArguments

\* TimeSet.__sub__ with a TimeSet on the right
SubtractTimesetFromTimeset ==
    /\ op' = "_subtract_timeset_from_timeset"
    /\ result' = _subtract_timeset_from_timeset(time_intervals, other)
    /\ UNCHANGED inputs

\* TimeSet.__add__ with a TimeSet on the right
AddTimeset ==
    /\ op' = "__add__(TimeSet)"
    /\ result' = __add__(time_intervals, TimeSetOperand(other))
    /\ UNCHANGED inputs

ComputeIntersection ==
    /\ op' = "compute_intersection"
    /\ result' = compute_intersection(time_intervals, other)
    /\ UNCHANGED inputs

NextPair == SubtractTimesetFromTimeset

SpecPair == InitPair /\ [][NextPair]_vars

\* __add__ is given either another TimeSet (other) or a TimeInterval
\* (subtrahend)
InitAdd == InitPair \/ InitSetInterval

NextAdd ==
    \/ AddTimeset
    \/ AddTimeinterval

SpecAdd == InitAdd /\ [][NextAdd]_vars

NextPairIntersection == ComputeIntersection

SpecPairIntersection == InitPair /\ [][NextPairIntersection]_vars

(***************************************************************************)
(* Operations on one TimeSet                                               *)
(***************************************************************************)
InitSet ==
    /\ op = "init"
    /\ time_intervals \in TimeSets(MaxLen)
    /\ other = <<>>
    /\ minuend = [start |-> 0, end |-> 0]
    /\ subtrahend = [start |-> 0, end |-> 0]
    /\ result = TimeSet(<<>>)
    /\ NoScalarArguments

ComputeInternalUnion ==
    /\ op' = "compute_internal_union"
    /\ result' = compute_internal_union(time_intervals)
    /\ UNCHANGED inputs

ComputeInternalIntersection ==
    /\ op' = "compute_internal_intersection"
    /\ result' = compute_internal_intersection(time_intervals)
    /\ UNCHANGED inputs

\* TimeSet.__add__ with a right operand that is no TimeSet and no TimeInterval
AddUnsupportedOperand ==
    /\ op' = "__add__(other)"
    /\ result' = __add__(time_intervals, OtherOperand)
    /\ UNCHANGED inputs

\* TimeSet.__sub__ with a right operand that is no TimeSet and no TimeInterval
SubtractUnsupportedOperand ==
    /\ op' = "__sub__(other)"
    /\ result' = __sub__(time_intervals, OtherOperand)
    /\ UNCHANGED inputs

NextSet ==
    \/ ComputeInternalUnion
    \/ ComputeInternalIntersection
    \/ AddUnsupportedOperand
    \/ SubtractUnsupportedOperand

SpecSet == InitSet /\ [][NextSet]_vars

(***************************************************************************)
(* clamp of one TimeSet                                                    *)
(***************************************************************************)
OptionalInstants == { None } \cup { Some(t) : t \in 0..MaxSetInstant }

InitClamp ==
    /\ op = "init"
    /\ time_intervals \in TimeSets(MaxOperandLen)
    /\ arg_new_start \in OptionalInstants
    /\ arg_new_end \in OptionalInstants
    /\ arg_start = 0
    /\ arg_end = 0
    /\ other = <<>>
    /\ minuend = [start |-> 0, end |-> 0]
    /\ subtrahend = [start |-> 0, end |-> 0]
    /\ result = TimeSet(<<>>)

Clamp ==
    /\ op' = "clamp"
    /\ result' = clamp(time_intervals, arg_new_start, arg_new_end)
    /\ UNCHANGED inputs

NextClamp == Clamp

SpecClamp == InitClamp /\ [][NextClamp]_vars

(***************************************************************************)
(* Construction of a TimeInterval from any two instants                    *)
(***************************************************************************)
InitConstruct ==
    /\ op = "init"
    /\ arg_start \in 0..MaxRawInstant
    /\ arg_end \in 0..MaxRawInstant
    /\ arg_new_start = None
    /\ arg_new_end = None
    /\ time_intervals = <<>>
    /\ other = <<>>
    /\ minuend = [start |-> 0, end |-> 0]
    /\ subtrahend = [start |-> 0, end |-> 0]
    /\ result = TimeSet(<<>>)

\* TimeInterval(arg_start, arg_end)
Construct ==
    /\ op' = "TimeInterval"
    /\ result' = TimeInterval(arg_start, arg_end)
    /\ UNCHANGED inputs

\* time_elapsed() of the interval TimeInterval(arg_start, arg_end), which
\* exists only if its construction did not raise
TimeElapsed ==
    /\ TimeInterval(arg_start, arg_end).err = "none"
    /\ op' = "time_elapsed"
    /\ result' = Returned(time_elapsed(TimeInterval(arg_start, arg_end).value))
    /\ UNCHANGED inputs

\* is_empty() of the interval TimeInterval(arg_start, arg_end)
IntervalIsEmpty ==
    /\ TimeInterval(arg_start, arg_end).err = "none"
    /\ op' = "TimeInterval.is_empty"
    /\ result' = Returned(interval_is_empty(TimeInterval(arg_start, arg_end).value))
    /\ UNCHANGED inputs

NextConstruct ==
    \/ Construct
    \/ TimeElapsed
    \/ IntervalIsEmpty

SpecConstruct == InitConstruct /\ [][NextConstruct]_vars

(***************************************************************************)
(* Longer pairs of TimeSets over few instants                              *)
(***************************************************************************)
NarrowTimeSets(maxLen) == SeqsUpTo(Intervals(MaxNarrowInstant), maxLen)

InitPairNarrow ==
    /\ op = "init"
    /\ time_intervals \in NarrowTimeSets(MaxNarrowTotal)
    /\ other \in NarrowTimeSets(MaxNarrowTotal - Len(time_intervals))
    /\ minuend = [start |-> 0, end |-> 0]
    /\ subtrahend = [start |-> 0, end |-> 0]
    /\ result = TimeSet(<<>>)
    /\ NoScalarArguments

\* TimeSet(time_intervals) == TimeSet(other)
Equals ==
    /\ op' = "__eq__"
    /\ result' = Returned(__eq__(time_intervals, other))
    /\ UNCHANGED inputs

NextPairNarrow ==
    \/ Equals
    \/ ComputeIntersection

SpecPairNarrow == InitPairNarrow /\ [][NextPairNarrow]_vars

(***************************************************************************)
(* Both forms of TimeSet.__sub__                                           *)
(***************************************************************************)
NextSubtract ==
    \/ SubtractTimesetFromTimeset
    \/ SubtractTimeintervalFromTimeset

SpecSubtract == InitAdd /\ [][NextSubtract]_vars

(***************************************************************************)
(* Unions and the intersection of two TimeSets                             *)
(***************************************************************************)
ComputeUnion ==
    /\ op' = "compute_union"
    /\ result' = compute_union(time_intervals, other)
    /\ UNCHANGED inputs

NextCover ==
    \/ ComputeInternalUnion
    \/ ComputeUnion
    \/ ComputeIntersection

SpecCover == InitPair /\ [][NextCover]_vars

(***************************************************************************)
(* Every operation of the algebra on the same operands                     *)
(***************************************************************************)
InitShortPair ==
    /\ op = "init"
    /\ time_intervals \in TimeSets(MaxOperandLen)
    /\ other \in TimeSets(MaxOperandLen - Len(time_intervals))
    /\ minuend = [start |-> 0, end |-> 0]
    /\ subtrahend = [start |-> 0, end |-> 0]
    /\ result = TimeSet(<<>>)
    /\ NoScalarArguments

InitProbeInterval ==
    /\ op = "init"
    /\ time_intervals \in TimeSets(MaxProbeLen)
    /\ subtrahend \in Intervals(MaxSetInstant)
    /\ minuend = [start |-> 0, end |-> 0]
    /\ other = <<>>
    /\ result = TimeSet(<<>>)
    /\ NoScalarArguments

InitProbeClamp ==
    /\ op = "init"
    /\ time_intervals \in TimeSets(MaxProbeLen)
    /\ arg_new_start \in OptionalInstants
    /\ arg_new_end \in OptionalInstants
    /\ arg_start = 0
    /\ arg_end = 0
    /\ other = <<>>
    /\ minuend = [start |-> 0, end |-> 0]
    /\ subtrahend = [start |-> 0, end |-> 0]
    /\ result = TimeSet(<<>>)

InitAlgebra ==
    \/ InitInterval
    \/ InitShortPair
    \/ InitProbeInterval
    \/ InitProbeClamp

NextAlgebra ==
    \/ SubtractTimeintervalFromTimeinterval
    \/ SubtractTimeintervalFromTimeset
    \/ SubtractTimesetFromTimeset
    \/ ComputeInternalUnion
    \/ ComputeUnion
    \/ ComputeInternalIntersection
    \/ ComputeIntersection
    \/ Clamp

SpecAlgebra == InitAlgebra /\ [][NextAlgebra]_vars

(***************************************************************************)
(* The list objects of a call.  A heap is a sequence of lists and a list   *)
(* object is named by its position in it, so two names of one object see   *)
(* each other's changes.  TimeSet(xs) is taken to keep the list object it  *)
(* is given, the choice under which most objects are shared.  Statements   *)
(* that build a list (list(), [..], a comprehension, a slice, sorted(),    *)
(* xs + ys) add an object; xs += ys and xs.append(y) change the object xs  *)
(* names.  Every operation returns the heap it leaves and the name of the  *)
(* list of the TimeSet it returns.                                         *)
(***************************************************************************)
new_list(h, contents) ==
    [heap |-> Append(h, contents), ref |-> Len(h) + 1, err |-> "none"]

\* an exception leaves the operation: the heap as it is then, and no list
heap_raise(h, e) == [heap |-> h, ref |-> 0, err |-> e]

\* a slip that sorts the list itself (xs.sort(key=...)) and goes on with it
SortsInPlace(h, xs) ==
    [heap |-> [h EXCEPT ![xs] = sorted_by_start(h[xs])], ref |-> xs,
     err |-> "none"]

\* sorted(xs, key=lambda ti: ti.start)
list_sorted(h, xs) == new_list(h, sorted_by_start(h[xs]))

\* xs + ys
list_concat(h, xs, ys) == new_list(h, h[xs] \o h[ys])

\* xs += contents (and xs.append(y) with contents = [y]): the heap afterwards
list_extend(h, xs, contents) == [h EXCEPT ![xs] = @ \o contents]

\* value = ...; rest: a statement's value is computed once and the statements
\* after it read that value
with_value(value, rest(_)) == CHOOSE out \in { rest(v) : v \in {value} } : TRUE

\* TimeSet(self.time_intervals + other.time_intervals)
heap_add_timeset(h, self, other_ts) == list_concat(h, self, other_ts)

\* TimeSet(self.time_intervals + [other])
heap_add_timeinterval(h, self, ti) ==
    with_value(new_list(h, <<ti>>), LAMBDA single :
        list_concat(single.heap, self, single.ref))

\* [_subtract_timeinterval_from_timeinterval(ti, s) for ti in
\* minuend.time_intervals]: every call returns a TimeSet with a list of its
\* own; refs collects their names, from member i on.  The comprehension stops
\* at the first call that raises.
RECURSIVE heap_primitive_differences(_, _, _, _, _)
heap_primitive_differences(h, minuend_ts, s, i, refs) ==
    IF i > Len(h[minuend_ts]) THEN [heap |-> h, refs |-> refs, err |-> "none"]
    ELSE with_value(
             _subtract_timeinterval_from_timeinterval(h[minuend_ts][i], s),
             LAMBDA difference :
        IF difference.err # "none"
        THEN [heap |-> h, refs |-> refs, err |-> difference.err]
        ELSE with_value(new_list(h, difference.time_intervals), LAMBDA made :
                 heap_primitive_differences(made.heap, minuend_ts, s, i + 1,
                                            Append(refs, made.ref))))

\* reduce(add, differences, acc): each add concatenates into a new list
RECURSIVE heap_reduce_add(_, _, _)
heap_reduce_add(h, refs, acc) ==
    IF refs = <<>> THEN [heap |-> h, ref |-> acc, err |-> "none"]
    ELSE with_value(list_concat(h, acc, Head(refs)), LAMBDA sum :
             heap_reduce_add(sum.heap, Tail(refs), sum.ref))

heap_subtract_timeinterval_from_timeset(h, minuend_ts, s) ==
    with_value(heap_primitive_differences(h, minuend_ts, s, 1, <<>>),
               LAMBDA differences :
        IF differences.err # "none"
        THEN heap_raise(differences.heap, differences.err)
        ELSE with_value(new_list(differences.heap, <<>>), LAMBDA empty :
                 heap_reduce_add(
                     empty.heap,
                     SelectSeq(differences.refs,
                               LAMBDA r : differences.heap[r] # <<>>),
                     empty.ref)))

\* the inner loop from subtrahend j of the sorted list on; diff names the
\* list of the current diff
RECURSIVE heap_subtract_inner_loop(_, _, _, _)
heap_subtract_inner_loop(h, diff, subtrahends, j) ==
    IF j > Len(h[subtrahends]) THEN [heap |-> h, ref |-> diff, err |-> "none"]
    ELSE with_value(
             heap_subtract_timeinterval_from_timeset(h, diff, h[subtrahends][j]),
             LAMBDA new_diff :
        IF new_diff.err # "none" THEN new_diff
        ELSE IF new_diff.heap[new_diff.ref] = <<>> THEN new_diff
        ELSE IF h[subtrahends][j].start > latest_end(new_diff.heap[new_diff.ref])
        THEN new_diff
        ELSE heap_subtract_inner_loop(new_diff.heap, new_diff.ref,
                                      subtrahends, j + 1))

\* the outer loop from minuend i of the sorted list on; differences names the
\* list that differences += diff.time_intervals extends
RECURSIVE heap_subtract_outer_loop(_, _, _, _, _)
heap_subtract_outer_loop(h, minuends, subtrahends, i, differences) ==
    IF i > Len(h[minuends])
    THEN [heap |-> h, ref |-> differences, err |-> "none"]
    ELSE with_value(new_list(h, <<h[minuends][i]>>), LAMBDA single :
         with_value(heap_subtract_inner_loop(single.heap, single.ref,
                                             subtrahends, 1),
                    LAMBDA diff :
        IF diff.err # "none" THEN diff
        ELSE with_value(IF diff.heap[diff.ref] # <<>>
                        THEN list_extend(diff.heap, differences,
                                         diff.heap[diff.ref])
                        ELSE diff.heap,
                        LAMBDA after :
                 heap_subtract_outer_loop(after, minuends, subtrahends, i + 1,
                                          differences))))

heap_subtract_timeset_from_timeset(h, minuend_ts, subtrahend_ts) ==
    with_value(new_list(h, <<>>), LAMBDA differences :
    with_value(list_sorted(differences.heap, minuend_ts),
               LAMBDA sorted_minuend :
    with_value(list_sorted(sorted_minuend.heap, subtrahend_ts),
               LAMBDA sorted_subtrahend :
        heap_subtract_outer_loop(sorted_subtrahend.heap, sorted_minuend.ref,
                                 sorted_subtrahend.ref, 1, differences.ref))))

\* the sweep from interval i of the sorted list on; unioned names the list
\* that unioned_timeintervals.append extends.  Every
\* TimeInterval(current_start, current_end) runs the construction check.
RECURSIVE heap_union_sweep(_, _, _, _, _, _)
heap_union_sweep(h, intervals, i, current_start, current_end, unioned) ==
    LET current == [start |-> current_start, end |-> current_end]
    IN  IF ~check_end_gt_start(current_start, current_end)
        THEN heap_raise(h, "ValidationError")
        ELSE IF i > Len(h[intervals])
        THEN [heap |-> list_extend(h, unioned, <<current>>), ref |-> unioned,
              err |-> "none"]
        ELSE LET interval == h[intervals][i]
             IN  IF ~is_disjoint_with(current, interval)
                 THEN IF interval.end > current_end
                      THEN heap_union_sweep(h, intervals, i + 1, current_start,
                                            interval.end, unioned)
                      ELSE heap_union_sweep(h, intervals, i + 1, current_start,
                                            current_end, unioned)
                 ELSE IF interval.start = current_end
                 THEN heap_union_sweep(h, intervals, i + 1, current_start,
                                       interval.end, unioned)
                 ELSE with_value(list_extend(h, unioned, <<current>>),
                                 LAMBDA after :
                          heap_union_sweep(after, intervals, i + 1,
                                           interval.start, interval.end,
                                           unioned))

heap_compute_internal_union(h, self) ==
    IF h[self] = <<>> THEN new_list(h, <<>>)
    ELSE with_value(new_list(h, <<>>), LAMBDA unioned :
         with_value(list_sorted(unioned.heap, self), LAMBDA intervals :
             heap_union_sweep(intervals.heap, intervals.ref, 1,
                              intervals.heap[intervals.ref][1].start,
                              intervals.heap[intervals.ref][1].end,
                              unioned.ref)))

\* TimeSet(self.time_intervals + other.time_intervals).compute_internal_union()
heap_compute_union(h, self, other_ts) ==
    with_value(list_concat(h, self, other_ts), LAMBDA both :
        heap_compute_internal_union(both.heap, both.ref))

\* self.time_intervals[1:] is a new list; the fold only reads
heap_compute_internal_intersection(h, self) ==
    IF h[self] = <<>> THEN new_list(h, <<>>)
    ELSE with_value(new_list(h, Tail(h[self])), LAMBDA rest :
         with_value(reduce_intersection(rest.heap[rest.ref], Some(h[self][1])),
                    LAMBDA intersection :
             IF intersection.err # "none"
             THEN heap_raise(rest.heap, intersection.err)
             ELSE IF ~intersection.value.is_none
             THEN new_list(rest.heap, <<intersection.value.value>>)
             ELSE new_list(rest.heap, <<>>)))

\* the two nested loops from pair k on (this run outside, other run inside);
\* found names the list that intersection_intervals.append extends
RECURSIVE heap_intersection_loops(_, _, _, _, _)
heap_intersection_loops(h, this_runs, other_runs, k, found) ==
    LET m == Len(h[other_runs])
    IN  IF m = 0 \/ k > Len(h[this_runs]) * m
        THEN [heap |-> h, ref |-> found, err |-> "none"]
        ELSE with_value(
                 _timeinterval_intersection(
                     Some(h[this_runs][((k - 1) \div m) + 1]),
                     h[other_runs][((k - 1) % m) + 1]),
                 LAMBDA intersection :
            IF intersection.err # "none"
            THEN heap_raise(h, intersection.err)
            ELSE with_value(IF ~intersection.value.is_none
                            THEN list_extend(h, found,
                                             <<intersection.value.value>>)
                            ELSE h,
                            LAMBDA after :
                     heap_intersection_loops(after, this_runs, other_runs,
                                             k + 1, found)))

heap_compute_intersection(h, self, other_ts) ==
    with_value(heap_compute_internal_union(h, self),
               LAMBDA this_timeset_union :
        IF this_timeset_union.err # "none" THEN this_timeset_union
        ELSE with_value(
                 heap_compute_internal_union(this_timeset_union.heap, other_ts),
                 LAMBDA other_timeset_union :
            IF other_timeset_union.err # "none" THEN other_timeset_union
            ELSE with_value(new_list(other_timeset_union.heap, <<>>),
                            LAMBDA intersection_intervals :
                     heap_intersection_loops(intersection_intervals.heap,
                                             this_timeset_union.ref,
                                             other_timeset_union.ref, 1,
                                             intersection_intervals.ref))))

\* the loop from member i on; clamped names the list that
\* clamped_intervals.append extends
RECURSIVE heap_clamp_loop(_, _, _, _, _, _)
heap_clamp_loop(h, self, new_start, new_end, i, clamped) ==
    IF i > Len(h[self]) THEN [heap |-> h, ref |-> clamped, err |-> "none"]
    ELSE LET start == clamp_start(h[self][i], new_start)
             end == clamp_end(h[self][i], new_end)
         IN  IF end >= start
             THEN with_value(TimeInterval(start, end), LAMBDA new_interval :
                  IF new_interval.err # "none"
                  THEN heap_raise(h, new_interval.err)
                  ELSE with_value(
                           list_extend(h, clamped, <<new_interval.value>>),
                           LAMBDA after :
                           heap_clamp_loop(after, self, new_start, new_end,
                                           i + 1, clamped)))
             ELSE heap_clamp_loop(h, self, new_start, new_end, i + 1, clamped)

heap_clamp(h, self, new_start, new_end) ==
    with_value(new_list(h, <<>>), LAMBDA clamped_intervals :
        heap_clamp_loop(clamped_intervals.heap, self, new_start, new_end, 1,
                        clamped_intervals.ref))

(***************************************************************************)
(* Calls on list objects: the receiver's list is object 1 of the heap and  *)
(* the argument's list object 2.  After the call time_intervals and other  *)
(* are what these two objects hold then.                                   *)
(***************************************************************************)
\* the arguments that are no lists: TimeIntervals and instants are immutable
scalars == <<minuend, subtrahend, arg_start, arg_end, arg_new_start, arg_new_end>>

operand_lists == <<time_intervals, other>>

\* out is what the operation left: its heap and the list of its TimeSet, or
\* the exception it raised
Leaves(name, out) ==
    /\ op' = name
    /\ result' = IF out.err # "none" THEN Raise(out.err)
                  ELSE TimeSet(out.heap[out.ref])
    /\ time_intervals' = out.heap[1]
    /\ other' = out.heap[2]
    /\ UNCHANGED scalars

CallAddTimeset ==
    Leaves("__add__(TimeSet)", heap_add_timeset(operand_lists, 1, 2))

CallAddTimeinterval ==
    Leaves("__add__(TimeInterval)",
           heap_add_timeinterval(operand_lists, 1, subtrahend))

CallSubtractTimeset ==
    Leaves("_subtract_timeset_from_timeset",
           heap_subtract_timeset_from_timeset(operand_lists, 1, 2))

CallSubtractTimeinterval ==
    Leaves("_subtract_timeinterval_from_timeset",
           heap_subtract_timeinterval_from_timeset(operand_lists, 1, subtrahend))

CallComputeInternalUnion ==
    Leaves("compute_internal_union",
           heap_compute_internal_union(operand_lists, 1))

CallComputeUnion ==
    Leaves("compute_union", heap_compute_union(operand_lists, 1, 2))

CallComputeInternalIntersection ==
    Leaves("compute_internal_intersection",
           heap_compute_internal_intersection(operand_lists, 1))

CallComputeIntersection ==
    Leaves("compute_intersection",
           heap_compute_intersection(operand_lists, 1, 2))

CallClamp ==
    Leaves("clamp", heap_clamp(operand_lists, 1, arg_new_start, arg_new_end))

NextFrame ==
    \/ CallAddTimeset
    \/ CallAddTimeinterval
    \/ CallSubtractTimeset
    \/ CallSubtractTimeinterval
    \/ CallComputeInternalUnion
    \/ CallComputeUnion
    \/ CallComputeInternalIntersection
    \/ CallComputeIntersection
    \/ CallClamp

SpecFrame == InitAlgebra /\ [][NextFrame]_vars

(***************************************************************************)
(* Claims about TimeInterval - TimeInterval (under SpecInterval)           *)
(***************************************************************************)
Called(name) == op = name

IsStrictlyInside(s, m) == m.start < s.start /\ s.end < m.end

\* C1: whenever the minuend is nested in the subtrahend (equal and
\* zero-duration intervals included), the primitive returns the empty TimeSet.
C1_NestedMinuendGivesEmpty ==
    (Called("_subtract_timeinterval_from_timeinterval")
        /\ is_nested_in(minuend, subtrahend))
    => result = TimeSet(<<>>)

\* C2: a subtrahend [t1,t2] strictly inside the minuend [t0,t3]
\* (t0 < t1 <= t2 < t3) leaves exactly <<[t0,t1], [t2,t3]>>, in that order,
\* through the dispatcher and through _subtract_nested_timeintervals.
C2_StrictlyInsideSplitsInTwo ==
    ((Called("_subtract_timeinterval_from_timeinterval")
        \/ Called("_subtract_nested_timeintervals"))
        /\ IsStrictlyInside(subtrahend, minuend))
    => result = TimeSet(<< [start |-> minuend.start, end |-> subtrahend.start],
                           [start |-> subtrahend.end, end |-> minuend.end] >>)

C2_Witness ==
    /\ Called("_subtract_timeinterval_from_timeinterval")
    /\ IsStrictlyInside(subtrahend, minuend)
    /\ subtrahend.start < subtrahend.end
    /\ Len(result.time_intervals) = 2

\* C3: for non-disjoint intervals where the minuend is not nested in the
\* subtrahend and the subtrahend is not strictly inside the minuend, the
\* difference is the single interval [s.end, m.end] when s.start <= m.start
\* and the single interval [m.start, s.start] when s.end >= m.end.
C3_PartialOverlapLeavesOneInterval ==
    (Called("_subtract_timeinterval_from_timeinterval")
        /\ ~is_disjoint_with(minuend, subtrahend)
        /\ ~is_nested_in(minuend, subtrahend)
        /\ ~IsStrictlyInside(subtrahend, minuend))
    => /\ result.err = "none"
       /\ Len(result.time_intervals) = 1
       /\ subtrahend.start <= minuend.start
            => result.time_intervals[1]
                 = [start |-> subtrahend.end, end |-> minuend.end]
       /\ subtrahend.end >= minuend.end
            => result.time_intervals[1]
                 = [start |-> minuend.start, end |-> subtrahend.start]
       /\ subtrahend.start <= minuend.start \/ subtrahend.end >= minuend.end

C3_Witness ==
    /\ Called("_subtract_timeinterval_from_timeinterval")
    /\ ~is_disjoint_with(minuend, subtrahend)
    /\ subtrahend.start < minuend.start
    /\ subtrahend.end < minuend.end
    /\ result = TimeSet(<< [start |-> subtrahend.end, end |-> minuend.end] >>)

\* C4: for disjoint intervals (touching ones included) the primitive returns
\* the one-element TimeSet holding the minuend unchanged.
C4_DisjointLeavesMinuend ==
    (Called("_subtract_timeinterval_from_timeinterval")
        /\ (minuend.end <= subtrahend.start \/ subtrahend.end <= minuend.start))
    => result = TimeSet(<<minuend>>)

C4_Witness ==
    /\ Called("_subtract_timeinterval_from_timeinterval")
    /\ minuend.start < minuend.end
    /\ minuend.end = subtrahend.start
    /\ subtrahend.start < subtrahend.end
    /\ result = TimeSet(<<minuend>>)

(***************************************************************************)
(* Claims about TimeSet - TimeInterval (under SpecSetInterval)             *)
(***************************************************************************)
\* the primitive results of the members of ts, in ts's order, joined
RECURSIVE PrimitiveRemainders(_, _)
PrimitiveRemainders(ts, s) ==
    IF ts = <<>> THEN <<>>
    ELSE _subtract_timeinterval_from_timeinterval(Head(ts), s).time_intervals
            \o PrimitiveRemainders(Tail(ts), s)

\* C5: A - s is the concatenation, in A's member order, of the primitive
\* results m - s for the members m of A, the empty ones contributing nothing;
\* nothing is sorted or merged, and an empty A gives an empty result.
C5_SetMinusIntervalIsMemberwise ==
    Called("_subtract_timeinterval_from_timeset")
    => /\ result = TimeSet(PrimitiveRemainders(time_intervals, subtrahend))
       /\ time_intervals = <<>> => result = TimeSet(<<>>)

C5_Witness ==
    /\ Called("_subtract_timeinterval_from_timeset")
    /\ Len(time_intervals) = 2
    /\ time_intervals[1].start > time_intervals[2].start
    /\ is_empty(_subtract_timeinterval_from_timeinterval(time_intervals[1],
                                                         subtrahend))
    /\ IsStrictlyInside(subtrahend, time_intervals[2])
    /\ Len(result.time_intervals) = 2

(***************************************************************************)
(* Claims about TimeSet - TimeSet (under SpecPair)                         *)
(***************************************************************************)
Permutations(n) ==
    { p \in [1..n -> 1..n] : \A i, j \in 1..n : i # j => p[i] # p[j] }

\* the orders that sort xs by start and keep ties in their order of xs
StableSortOrders(xs) ==
    { p \in Permutations(Len(xs)) :
        \A i, j \in 1..Len(xs) :
            i < j => \/ xs[p[i]].start < xs[p[j]].start
                     \/ xs[p[i]].start = xs[p[j]].start /\ p[i] < p[j] }

InOrder(xs, p) == [i \in 1..Len(xs) |-> xs[p[i]]]

\* srt is xs sorted by start with ties in their order of xs
IsStableSortByStart(srt, xs) ==
    \E p \in StableSortOrders(xs) : srt = InOrder(xs, p)

\* pieces splits into consecutive groups, one per element of minuends and in
\* their order, each group holding only intervals nested in its minuend
RECURSIVE IsGroupedBy(_, _)
IsGroupedBy(pieces, minuends) ==
    IF minuends = <<>> THEN pieces = <<>>
    ELSE \E k \in 0..Len(pieces) :
            /\ \A j \in 1..k : is_nested_in(pieces[j], Head(minuends))
            /\ IsGroupedBy(SubSeq(pieces, k + 1, Len(pieces)), Tail(minuends))

AllDisjoint(xs, ys) ==
    \A i \in 1..Len(xs) : \A j \in 1..Len(ys) : is_disjoint_with(xs[i], ys[j])

\* C6: A - B lists the remainders grouped by minuend in the stable
\* start-ascending order of A; A - B is A stably sorted by start when B is
\* empty or every interval of B is disjoint from every interval of A; and
\* the empty TimeSet minus B is empty.
C6_SetDifferenceFollowsSortedMinuend ==
    Called("_subtract_timeset_from_timeset")
    => /\ result.err = "none"
       /\ \E p \in StableSortOrders(time_intervals) :
             IsGroupedBy(result.time_intervals, InOrder(time_intervals, p))
       /\ AllDisjoint(time_intervals, other)
             => IsStableSortByStart(result.time_intervals, time_intervals)
       /\ time_intervals = <<>> => result = TimeSet(<<>>)

C6_Witness ==
    /\ Called("_subtract_timeset_from_timeset")
    /\ Len(time_intervals) = 2
    /\ Len(other) = 1
    /\ time_intervals[1].start > time_intervals[2].start
    /\ ~is_disjoint_with(time_intervals[2], other[1])
    /\ Len(result.time_intervals) = 3

\* C7: A - A is the empty TimeSet for every TimeSet A.
C7_SelfDifferenceIsEmpty ==
    (Called("_subtract_timeset_from_timeset") /\ other = time_intervals)
    => result = TimeSet(<<>>)

(***************************************************************************)
(* Claims about compute_internal_union (under SpecSet)                     *)
(***************************************************************************)
\* C8: the intervals of A.compute_internal_union() are ascending and neither
\* overlap nor touch: each one ends before the next one starts.
C8_UnionRunsAreSeparated ==
    Called("compute_internal_union")
    => /\ result.err = "none"
       /\ \A i \in 1..(Len(result.time_intervals) - 1) :
             result.time_intervals[i].end < result.time_intervals[i + 1].start

\* each interval of xs starts exactly where the one before it ends
IsChain(xs) ==
    /\ xs # <<>>
    /\ \A i \in 1..(Len(xs) - 1) : xs[i + 1].start = xs[i].end

\* C9: touching intervals are disjoint for is_disjoint_with, yet
\* compute_internal_union fuses a chain of intervals, each starting exactly
\* where the previous one ends, into the single interval from the first start
\* to the last end.
C9_TouchingChainIsFused ==
    (Called("compute_internal_union") /\ IsChain(time_intervals))
    => /\ \A i \in 1..(Len(time_intervals) - 1) :
             is_disjoint_with(time_intervals[i], time_intervals[i + 1])
       /\ result = TimeSet(<< [start |-> time_intervals[1].start,
                               end |-> time_intervals[Len(time_intervals)].end] >>)

C9_Witness ==
    /\ Called("compute_internal_union")
    /\ Len(time_intervals) = 2
    /\ time_intervals[1].start < time_intervals[1].end
    /\ time_intervals[2].start = time_intervals[1].end
    /\ time_intervals[2].start < time_intervals[2].end
    /\ result = TimeSet(<< [start |-> time_intervals[1].start,
                            end |-> time_intervals[2].end] >>)

\* C10: compute_internal_union is idempotent: applied to its own result it
\* returns that result again.
C10_UnionIsIdempotent ==
    Called("compute_internal_union")
    => compute_internal_union(result.time_intervals) = result

(***************************************************************************)
(* Claims about _timeinterval_intersection (under SpecInterval)            *)
(***************************************************************************)
\* the interval from the later start to the earlier end of a and b
CommonPart(a, b) ==
    [start |-> IF a.start >= b.start THEN a.start ELSE b.start,
     end |-> IF a.end <= b.end THEN a.end ELSE b.end]

\* C11: _timeinterval_intersection(a, b) is None exactly when a is disjoint
\* with b (touching intervals included) and otherwise is the interval
\* [max(a.start, b.start), min(a.end, b.end)], also on the nested shortcuts;
\* with None as first operand the result is None.
C11_IntersectionIsCommonPart ==
    /\ Called("_timeinterval_intersection")
        => /\ result.err = "none"
           /\ result.value.is_none
                <=> (minuend.end <= subtrahend.start
                        \/ subtrahend.end <= minuend.start)
           /\ ~result.value.is_none
                => result.value = Some(CommonPart(minuend, subtrahend))
    /\ Called("_timeinterval_intersection(None)") => result = Returned(None)

C11_Witness ==
    /\ Called("_timeinterval_intersection")
    /\ minuend.start < subtrahend.start
    /\ subtrahend.start < minuend.end
    /\ minuend.end < subtrahend.end
    /\ result = Returned(Some([start |-> subtrahend.start, end |-> minuend.end]))

(***************************************************************************)
(* Claims about compute_internal_intersection (under SpecSet)              *)
(***************************************************************************)
\* the left-to-right fold over the first k members of ts has come to None
FoldIsNoneAfter(ts, k) ==
    reduce_intersection(SubSeq(ts, 2, k), Some(ts[1])).value.is_none

\* C12: compute_internal_intersection returns at most one interval; nothing
\* for an empty TimeSet; nothing once a step of the left-to-right fold has
\* given None, whatever members follow; and an interval it returns is nested
\* in every member.
C12_InternalIntersectionIsFold ==
    Called("compute_internal_intersection")
    => /\ result.err = "none"
       /\ Len(result.time_intervals) <= 1
       /\ time_intervals = <<>> => is_empty(result)
       /\ (\E k \in 1..Len(time_intervals) : FoldIsNoneAfter(time_intervals, k))
             => is_empty(result)
       /\ \A i \in 1..Len(result.time_intervals) :
             \A j \in 1..Len(time_intervals) :
                is_nested_in(result.time_intervals[i], time_intervals[j])

C12_Witness ==
    /\ Called("compute_internal_intersection")
    /\ Len(time_intervals) = 3
    /\ time_intervals[1].end = time_intervals[2].start
    /\ FoldIsNoneAfter(time_intervals, 2)
    /\ ~is_disjoint_with(time_intervals[2], time_intervals[3])
    /\ is_empty(result)

(***************************************************************************)
(* Claims about compute_intersection (under SpecPairIntersection)          *)
(***************************************************************************)
Occurrences(xs, x) == Cardinality({ i \in 1..Len(xs) : xs[i] = x })

\* xs and ys hold the same intervals, each as often in xs as in ys
SameMultiset(xs, ys) ==
    /\ Len(xs) = Len(ys)
    /\ \A i \in 1..Len(xs) : Occurrences(xs, xs[i]) = Occurrences(ys, xs[i])

\* C13: A.compute_intersection(B) and B.compute_intersection(A) hold the
\* same intervals with the same multiplicities.
C13_IntersectionIsSymmetric ==
    Called("compute_intersection")
    => /\ result.err = "none"
       /\ SameMultiset(result.time_intervals,
                       compute_intersection(other, time_intervals).time_intervals)

C13_Witness ==
    /\ Called("compute_intersection")
    /\ Len(time_intervals) = 1
    /\ Len(other) = 2
    /\ Len(result.time_intervals) = 2
    /\ result.time_intervals[1] # result.time_intervals[2]
    /\ time_intervals[1] # other[1]

\* C14: intersecting A with an equal TimeSet gives A's normalized form:
\* A.compute_intersection(A) = A.compute_internal_union(), position by position.
C14_SelfIntersectionIsUnion ==
    (Called("compute_intersection") /\ other = time_intervals)
    => result = compute_internal_union(time_intervals)

(***************************************************************************)
(* Claims about clamp (under SpecClamp)                                    *)
(***************************************************************************)
\* m clipped to the bounds that are set
Clipped(m, lo, hi) ==
    [start |-> IF lo.is_none \/ m.start >= lo.value THEN m.start ELSE lo.value,
     end |-> IF hi.is_none \/ m.end <= hi.value THEN m.end ELSE hi.value]

\* the clipped members of ts that are not inverted, in the order of ts
RECURSIVE ClippedSurvivors(_, _, _)
ClippedSurvivors(ts, lo, hi) ==
    IF ts = <<>> THEN <<>>
    ELSE LET c == Clipped(Head(ts), lo, hi)
         IN  (IF c.end >= c.start THEN <<c>> ELSE <<>>)
                \o ClippedSurvivors(Tail(ts), lo, hi)

\* C15: A.clamp(new_start, new_end) is, in A's order, the clipped interval
\* [max(m.start, new_start), min(m.end, new_end)] of exactly the members m
\* for which it has end >= start; single-instant results are kept, inverted
\* ones dropped, and with both bounds unset the result equals A.
C15_ClampClipsAndDrops ==
    Called("clamp")
    => /\ result = TimeSet(ClippedSurvivors(time_intervals, arg_new_start,
                                            arg_new_end))
       /\ (arg_new_start = None /\ arg_new_end = None)
             => result = TimeSet(time_intervals)

C15_Witness ==
    /\ Called("clamp")
    /\ Len(time_intervals) = 2
    /\ arg_new_start # None
    /\ arg_new_end # None
    /\ time_intervals[1].start < time_intervals[1].end
    /\ time_intervals[1].end = arg_new_start.value
    /\ time_intervals[2].start > arg_new_end.value
    /\ result = TimeSet(<< [start |-> arg_new_start.value,
                            end |-> arg_new_start.value] >>)

(***************************************************************************)
(* Claims about + and - (under SpecAdd and SpecSet)                        *)
(***************************************************************************)
\* whole is first followed by second
IsFollowedBy(whole, first, second) ==
    /\ Len(whole) = Len(first) + Len(second)
    /\ \A i \in 1..Len(first) : whole[i] = first[i]
    /\ \A j \in 1..Len(second) : whole[Len(first) + j] = second[j]

\* C16: A + B is A's sequence followed by B's, and A + i is A's sequence
\* followed by i, with nothing merged or reordered; the length of the result
\* is the sum of the operands' lengths.
C16_AdditionConcatenates ==
    /\ Called("__add__(TimeSet)")
        => /\ result.err = "none"
           /\ IsFollowedBy(result.time_intervals, time_intervals, other)
    /\ Called("__add__(TimeInterval)")
        => /\ result.err = "none"
           /\ IsFollowedBy(result.time_intervals, time_intervals, <<subtrahend>>)

C16_Witness ==
    /\ Called("__add__(TimeSet)")
    /\ Len(time_intervals) = 1
    /\ Len(other) = 2
    /\ other[1] = time_intervals[1]
    /\ ~is_disjoint_with(other[2], time_intervals[1])
    /\ Len(result.time_intervals) = 3

\* C17: + and - with a right operand that is neither a TimeSet nor a
\* TimeInterval fail with the same error kind, a ValueError, and give no result.
C17_UnsupportedOperandIsValueError ==
    (Called("__add__(other)") \/ Called("__sub__(other)"))
    => result = Raise("ValueError")

(***************************************************************************)
(* Claims about TimeInterval (under SpecConstruct and SpecInterval)        *)
(***************************************************************************)
\* C18: TimeInterval(start, end) succeeds exactly when start <= end (a
\* zero-duration interval is accepted and is_empty() holds of it); with
\* end < start it fails with the invalid-interval error (the ValidationError
\* that carries the validator's InvalidTimeIntervalError); so every interval
\* that exists has start <= end and time_elapsed() = end - start >= 0.
C18_ConstructionNeedsStartNotAfterEnd ==
    /\ Called("TimeInterval")
        => /\ result.err = "none" <=> arg_start <= arg_end
           /\ arg_start <= arg_end
                => result = Returned([start |-> arg_start, end |-> arg_end])
           /\ arg_end < arg_start => result = Raise("ValidationError")
    /\ Called("TimeInterval.is_empty")
        => /\ arg_start <= arg_end
           /\ result.value <=> arg_start = arg_end
    /\ Called("time_elapsed")
        => /\ arg_start <= arg_end
           /\ result.value = arg_end - arg_start
           /\ result.value >= 0

C18_Witness ==
    /\ Called("TimeInterval.is_empty")
    /\ arg_start = arg_end
    /\ result = Returned(TRUE)

Touching(a, b) == a.end = b.start \/ b.end = a.start

Separated(a, b) == a.end < b.start \/ b.end < a.start

\* each holds an instant the other lacks on either side of a shared stretch
ProperlyOverlapping(a, b) ==
    \/ a.start < b.start /\ b.start < a.end /\ a.end < b.end
    \/ b.start < a.start /\ a.start < b.end /\ b.end < a.end

HasDuration(a) == a.start < a.end

\* C19: is_disjoint_with is symmetric and holds exactly when a.end <= b.start
\* or b.end <= a.start, so that touching intervals are disjoint and equal,
\* nested and properly overlapping intervals of positive duration never are.
C19_DisjointIsSymmetric ==
    Called("is_disjoint_with")
    => /\ result.value = is_disjoint_with(subtrahend, minuend)
       /\ result.value
            <=> (minuend.end <= subtrahend.start \/ subtrahend.end <= minuend.start)
       /\ (HasDuration(minuend) /\ HasDuration(subtrahend)
             /\ (\/ minuend = subtrahend
                 \/ is_nested_in(minuend, subtrahend)
                 \/ is_nested_in(subtrahend, minuend)
                 \/ ProperlyOverlapping(minuend, subtrahend)))
            => ~result.value

C19_Witness ==
    /\ Called("is_disjoint_with")
    /\ HasDuration(minuend)
    /\ HasDuration(subtrahend)
    /\ subtrahend.end = minuend.start
    /\ result = Returned(TRUE)

\* is_nested_in is reflexive, and mutual nesting is equality
NestingIsAPartialOrder ==
    /\ minuend = subtrahend => result.value
    /\ (result.value /\ is_nested_in(subtrahend, minuend)) <=> minuend = subtrahend

NestedNeitherWay ==
    ~result.value /\ ~is_nested_in(subtrahend, minuend)

\* C20 as stated: is_nested_in is reflexive, two intervals are nested in each
\* other exactly when they are equal, and intervals that only overlap, touch
\* or are separated are nested in neither direction.
C20_TouchingIsNeverNested ==
    Called("is_nested_in")
    => /\ NestingIsAPartialOrder
       /\ (\/ ProperlyOverlapping(minuend, subtrahend)
           \/ Touching(minuend, subtrahend)
           \/ Separated(minuend, subtrahend))
            => NestedNeitherWay

\* C20 amended: as stated, but touching intervals are nested in neither
\* direction only when both have positive duration (a zero-duration interval
\* on an endpoint of another is nested in it).
C20_NestingOrderAndOutsiders ==
    Called("is_nested_in")
    => /\ NestingIsAPartialOrder
       /\ (\/ ProperlyOverlapping(minuend, subtrahend)
           \/ Separated(minuend, subtrahend)
           \/ (Touching(minuend, subtrahend)
                 /\ HasDuration(minuend) /\ HasDuration(subtrahend)))
            => NestedNeitherWay

C20_Witness ==
    /\ Called("is_nested_in")
    /\ HasDuration(minuend)
    /\ HasDuration(subtrahend)
    /\ minuend.end = subtrahend.start
    /\ result = Returned(FALSE)

(***************************************************************************)
(* Claims about TimeSet equality (under SpecPairNarrow)                    *)
(***************************************************************************)
IsProperPrefix(part, whole) ==
    Len(part) < Len(whole) /\ part = SubSeq(whole, 1, Len(part))

IsProperSuffix(part, whole) ==
    /\ Len(part) < Len(whole)
    /\ part = SubSeq(whole, Len(whole) - Len(part) + 1, Len(whole))

DiffersAtSomePosition(xs, ys) ==
    \E i \in 1..Len(xs) : i <= Len(ys) /\ xs[i] # ys[i]

\* C21: two TimeSets are equal exactly when they have the same length and
\* equal intervals at every position; a reordering that differs at some
\* position, a proper prefix and a proper suffix all compare unequal.
C21_EqualityIsPositional ==
    Called("__eq__")
    => /\ result.value
            <=> (/\ Len(time_intervals) = Len(other)
                 /\ ~DiffersAtSomePosition(time_intervals, other))
       /\ (SameMultiset(other, time_intervals)
             /\ DiffersAtSomePosition(other, time_intervals))
            => ~result.value
       /\ (IsProperPrefix(other, time_intervals)
             \/ IsProperSuffix(other, time_intervals))
            => ~result.value

C21_Witness ==
    /\ Called("__eq__")
    /\ Len(time_intervals) = 2
    /\ other = sorted_by_start(time_intervals)
    /\ other # time_intervals
    /\ result = Returned(FALSE)

(***************************************************************************)
(* Claims about the operands after a call (under SpecFrame)                *)
(***************************************************************************)
\* C22: no call of add, subtract, compute_internal_union, compute_union,
\* compute_internal_intersection, compute_intersection or clamp, in any
\* sequence of such calls, changes the receiver's or the argument's list of
\* intervals: members and order stay as they were before the call.  Each call
\* runs on the heap of list objects, and time_intervals' and other' are what
\* the receiver's and the argument's list objects hold when it returns.
C22_OperandsAreNotModified ==
    [][time_intervals' = time_intervals /\ other' = other]_vars

\* a subtraction that sorted an unsorted receiver and returned it in order
C22_Witness ==
    /\ Called("_subtract_timeset_from_timeset")
    /\ time_intervals # sorted_by_start(time_intervals)
    /\ result.time_intervals = sorted_by_start(time_intervals)

(***************************************************************************)
(* Claims about the shortcuts of TimeSet - TimeSet (under SpecPair)        *)
(***************************************************************************)
\* every subtrahend is subtracted from the pieces in turn, none is skipped
RECURSIVE SubtractEverySubtrahend(_, _)
SubtractEverySubtrahend(pieces, subtrahends) ==
    IF subtrahends = <<>> THEN pieces
    ELSE SubtractEverySubtrahend(
            _subtract_timeinterval_from_timeset(pieces, Head(subtrahends)).time_intervals,
            Tail(subtrahends))

RECURSIVE DifferenceWithoutShortcuts(_, _)
DifferenceWithoutShortcuts(minuends, subtrahends) ==
    IF minuends = <<>> THEN <<>>
    ELSE SubtractEverySubtrahend(<<Head(minuends)>>, subtrahends)
            \o DifferenceWithoutShortcuts(Tail(minuends), subtrahends)

\* C23: leaving the inner loop early (on an empty diff, or when a subtrahend
\* starts after the latest end in diff) never changes the result: A - B is
\* what subtracting every sorted subtrahend from every sorted minuend gives.
C23_ShortcutsKeepTheResult ==
    Called("_subtract_timeset_from_timeset")
    => result = TimeSet(DifferenceWithoutShortcuts(sorted_by_start(time_intervals),
                                                   sorted_by_start(other)))

\* the loop is left after its first subtrahend, which starts after the minuend
C23_Witness ==
    /\ Called("_subtract_timeset_from_timeset")
    /\ Len(time_intervals) = 1
    /\ Len(other) = 2
    /\ sorted_by_start(other)[1].start > time_intervals[1].end
    /\ result = TimeSet(time_intervals)

(***************************************************************************)
(* Claims about the error branch of the primitive (under SpecInterval)     *)
(***************************************************************************)
\* the dispatcher's last branch is the one taken
ReachesNonNested(m, s) ==
    ~is_disjoint_with(m, s) /\ ~is_nested_in(m, s) /\ ~is_nested_in(s, m)

\* C24: the dispatcher never gives the non-nested routine two intervals of
\* equal start, so it never raises; the routine called directly raises the
\* ValueError exactly when the starts are equal.
C24_EqualStartsBranchIsUnreachable ==
    /\ Called("_subtract_timeinterval_from_timeinterval")
        => /\ result.err = "none"
           /\ ReachesNonNested(minuend, subtrahend)
                => minuend.start # subtrahend.start
    /\ Called("_subtract_non_nested_timeintervals")
        => (result.err = "ValueError" <=> minuend.start = subtrahend.start)

C24_Witness ==
    /\ Called("_subtract_timeinterval_from_timeinterval")
    /\ ReachesNonNested(minuend, subtrahend)
    /\ Len(result.time_intervals) = 1

(***************************************************************************)
(* Claims about the runs of an intersection (under SpecPairNarrow)         *)
(***************************************************************************)
\* C25: any two intervals at different positions of A.compute_intersection(B)
\* are disjoint in the is_disjoint_with sense.
C25_IntersectionRunsAreDisjoint ==
    Called("compute_intersection")
    => \A i, j \in 1..Len(result.time_intervals) :
          i # j => is_disjoint_with(result.time_intervals[i],
                                    result.time_intervals[j])

(***************************************************************************)
(* Claims about covered time                                               *)
(***************************************************************************)
\* the unit cells [k, k+1] covered by xs, each named by its k
CoveredCells(xs) ==
    UNION { xs[i].start .. (xs[i].end - 1) : i \in 1..Len(xs) }

\* C26 (under SpecSubtract): the cells covered by A - B are the cells covered
\* by A and not by B, and the cells covered by A - s are the cells covered by
\* A and not by s.
C26_DifferenceIsExactOnCells ==
    /\ Called("_subtract_timeset_from_timeset")
        => /\ result.err = "none"
           /\ CoveredCells(result.time_intervals)
                = CoveredCells(time_intervals) \ CoveredCells(other)
    /\ Called("_subtract_timeinterval_from_timeset")
        => /\ result.err = "none"
           /\ CoveredCells(result.time_intervals)
                = CoveredCells(time_intervals) \ CoveredCells(<<subtrahend>>)

C26_Witness ==
    /\ Called("_subtract_timeset_from_timeset")
    /\ Len(time_intervals) = 2
    /\ ProperlyOverlapping(time_intervals[1], time_intervals[2])
    /\ Len(other) = 1
    /\ CoveredCells(result.time_intervals) # {}
    /\ CoveredCells(result.time_intervals) # CoveredCells(time_intervals)

\* C27 (under SpecCover): compute_internal_union covers the cells of A,
\* compute_union the cells of A or B, compute_intersection the cells of both.
C27_UnionAndIntersectionAreExactOnCells ==
    /\ Called("compute_internal_union")
        => CoveredCells(result.time_intervals) = CoveredCells(time_intervals)
    /\ Called("compute_union")
        => CoveredCells(result.time_intervals)
             = CoveredCells(time_intervals) \cup CoveredCells(other)
    /\ Called("compute_intersection")
        => CoveredCells(result.time_intervals)
             = CoveredCells(time_intervals) \cap CoveredCells(other)

C27_Witness ==
    /\ Called("compute_intersection")
    /\ Len(time_intervals) = 1
    /\ Len(other) = 1
    /\ ProperlyOverlapping(time_intervals[1], other[1])
    /\ CoveredCells(result.time_intervals) # {}
    /\ CoveredCells(result.time_intervals) # CoveredCells(time_intervals)
    /\ CoveredCells(result.time_intervals) # CoveredCells(other)

(***************************************************************************)
(* Claims about every operation of the algebra (under SpecAlgebra)         *)
(***************************************************************************)
\* C28: subtract (all three forms), the unions, the intersections and clamp
\* never build an interval with end < start: none of them raises, and each
\* returns a TimeSet of intervals with start <= end.
C28_NoInvertedIntervalIsBuilt ==
    ~Called("init")
    => /\ result.err = "none"
       /\ \A i \in 1..Len(result.time_intervals) :
             result.time_intervals[i].start <= result.time_intervals[i].end

\* clamp with new_start after new_end on a TimeSet that has a member
C28_Witness ==
    /\ Called("clamp")
    /\ ~arg_new_start.is_none
    /\ ~arg_new_end.is_none
    /\ arg_new_start.value > arg_new_end.value
    /\ Len(time_intervals) = 1
    /\ result = TimeSet(<<>>)

(***************************************************************************)
(* Claims about the order of the members                                   *)
(***************************************************************************)
\* C29 (under SpecCover): A.compute_union(B) == B.compute_union(A), and
\* compute_internal_union gives the same result for every permutation of the
\* members.
C29_UnionIgnoresOrder ==
    /\ Called("compute_union") => result = compute_union(other, time_intervals)
    /\ Called("compute_internal_union")
        => \A p \in Permutations(Len(time_intervals)) :
              compute_internal_union(InOrder(time_intervals, p)) = result

\* C30 (under SpecSet): compute_internal_intersection gives the same result
\* for every permutation of the members.
C30_InternalIntersectionIgnoresOrder ==
    Called("compute_internal_intersection")
    => \A p \in Permutations(Len(time_intervals)) :
          compute_internal_intersection(InOrder(time_intervals, p)) = result

\* three different members, one of them a single instant, with a common part
C30_Witness ==
    /\ Called("compute_internal_intersection")
    /\ Len(time_intervals) = 3
    /\ time_intervals[1] # time_intervals[2]
    /\ time_intervals[2] # time_intervals[3]
    /\ time_intervals[1] # time_intervals[3]
    /\ ~HasDuration(time_intervals[3])
    /\ result = TimeSet(<<time_intervals[3]>>)

====
